---- MODULE Spec2Model ----
(***************************************************************************)
(* X11Canvas (src/canvas/x11/x11.cpp): the caller thread (init / draw /    *)
(* clear / destructor), the EventDispatcher thread (handle_events) and the *)
(* AnimationDriver threads (the lambda started by draw) over the shared    *)
(* window registry, the held Image and the can_draw flag.                  *)
(*                                                                         *)
(* Each C++ statement that another thread can observe is one action.  A    *)
(* container operation that another thread can overlap (insert, clear,     *)
(* at, range-for) has a begin and an end.  Undefined behaviour (use of a   *)
(* destroyed Window or released Image, a null Image, an unsynchronised     *)
(* overlap of a registry write with a read, assignment to a joinable       *)
(* std::thread) is a nondeterministic choice between the process dying and *)
(* the statement going on.                                                 *)
(***************************************************************************)
EXTENDS Integers, FiniteSets, Sequences, TLC

\* ---- bounds of the model ------------------------------------------------
MaxInits == 2      \* init() calls, each with a fresh Image (ids 1..MaxInits)
MaxWid == 2        \* window ids xcb_generate_id hands out (1..MaxWid)
MaxThreads == 2    \* AnimationDriver threads that can exist at once
MaxEvents == 2     \* X11 events the server delivers in one run
MaxPid == 3        \* process ids get_tmux_window_ids is checked over

\* ---- identifiers ----------------------------------------------------------
NoImage == 0                       \* the empty unique_ptr<Image>
NoThread == 0                      \* a std::thread that is not joinable
ImageIds == 1..MaxInits
WinIds == 1..MaxWid
ThreadIds == 1..MaxThreads
TerminalWid == 10                  \* dimensions.terminal.x11_wid
TmuxWid == 11                      \* a window found through the pid map
OtherTmuxWid == 12                 \* another window found through the pid map
UnknownWid == 0                    \* an Expose target no init() registered

VARIABLES
    callerPc,        \* position of the caller thread
    parent_ids,      \* init: the target window ids (a local of init)
    pendingParents,  \* init: parent ids for_each has not visited yet
    curParent,       \* init: the parent of the Window being inserted
    callerTodo,      \* draw (static): windows the range-for has not visited
    callerGen,       \* draw (static): generate_frame calls made, per window
    newThread,       \* draw (animated): the temporary std::thread
    image,           \* X11Canvas::image (NoImage or an image id)
    nextImg,         \* id of the Image the next init() receives
    is_animated,     \* image->is_animated() of the image held
    releasedByClear, \* images destroyed by clear's image.reset()
    windows,         \* X11Canvas::windows: wid -> [parent, img]
    nextWid,         \* next id xcb_generate_id returns
    can_draw,        \* X11Canvas::can_draw
    draw_thread,     \* X11Canvas::draw_thread (NoThread or a thread id)
    animPc,          \* position of each AnimationDriver thread
    animTodo,        \* windows its range-for has not visited in this pass
    animCur,         \* window whose generate_frame it is inside
    animImg,         \* Image pointer it loaded for next_frame
    animRaced,       \* a registry write overlapped its iteration
    animPasses,      \* loop passes the latest thread of this id began (0, 1 = some)
    evPc,            \* position of the EventDispatcher thread
    evQueue,         \* events queued on the connection
    evCur,           \* the event being dispatched
    evTarget,        \* the Window windows.at() returned
    evRaced,         \* a registry write overlapped its lookup
    evCount,         \* events delivered so far
    stop_flag,       \* Application::stop_flag_
    connOpen,        \* the display has not been closed
    process,         \* "running", "terminated" (std::terminate), "crashed"
    dtorSawAnim,     \* the destructor began with an animation thread alive
    errorLogs,       \* logger->error calls the EventDispatcher has made
    tmuxEnv,         \* get_tmux_window_ids alone: the answers it receives
    tmuxIds,         \* get_tmux_window_ids alone: parent_ids after the call
    display,         \* what XOpenDisplay returned: "unset", "null", "open"
    connection,      \* what XGetXCBConnection returned: "unset", "null", "valid"
    visual_res       \* what XMatchVisualInfo returned (-1: not called yet)

callerVars == <<callerPc, parent_ids, pendingParents, curParent, callerTodo, callerGen,
               newThread>>
imgVars == <<image, nextImg, is_animated, releasedByClear>>
regVars == <<windows, nextWid>>
thrVars == <<can_draw, draw_thread>>
animVars == <<animPc, animTodo, animCur, animImg, animRaced, animPasses>>
evVars == <<evPc, evQueue, evCur, evTarget, evRaced, evCount>>
envVars == <<stop_flag, connOpen>>
tmuxVars == <<tmuxEnv, tmuxIds>>
ctorVars == <<display, connection, visual_res>>
ghostVars == <<dtorSawAnim, errorLogs, tmuxVars, ctorVars>>
vars == <<callerVars, imgVars, regVars, thrVars, animVars, evVars, envVars,
          ghostVars, process>>

\* ---- helpers ------------------------------------------------------------
EmptyRegistry == [w \in {} |-> [parent |-> 0, img |-> 0]]
Registered == DOMAIN windows

\* The process is alive: no std::terminate, no crash.
Running == process = "running"

\* The state change of a statement whose behaviour is undefined and that
\* brings the process down.
Crash == process' = "crashed" /\
         UNCHANGED <<callerVars, imgVars, regVars, thrVars, animVars, evVars,
                     envVars, ghostVars>>

\* The caller is inside windows.insert() or windows.clear().
InMutation == callerPc \in {"init_inserting", "clear_clearing"}

\* The caller is inside a registry write that a concurrent read must not
\* overlap: an insert (it links a node and may rehash), or a clear that
\* frees nodes.  A clear of an empty map frees nothing and stores only the
\* values already there, so a read that overlaps it still finds nothing.
Mutating == \/ callerPc = "init_inserting"
            \/ callerPc = "clear_clearing" /\ Registered # {}

\* An AnimationDriver thread has started and has not left its lambda.
AnimAlive(t) == animPc[t] \notin {"unborn", "done"}

\* Images destroyed, by init's move-assignment or by clear's reset: every
\* image an init() received except the one held.
released == (1..(nextImg - 1)) \ {image}

\* window ids are never handed out twice, so a Window that was registered
\* and no longer is has been destroyed by windows.clear().
destroyed ==
    { w \in 1..(nextWid - 1) :
        w \notin Registered /\ ~(callerPc = "init_inserting" /\ w = nextWid - 1) }

\* A Window whose generate_frame may not be called: it was destroyed, or the
\* Image it refers to was released.
Dangling(w) == \/ w \notin Registered
               \/ windows[w].img \in released

\* ---- X11Canvas::get_tmux_window_ids ---------------------------------------
\* util::get_process_tree: the pid and its ancestors (3 -> 2 -> 1).
get_process_tree(pid) == 1..pid

\* The multiplexer and pid-map answers an init() call can receive:
\* pids is {} wrapped in has_value, map is the pid -> window id map.
TmuxEnvs ==
    { [has_value |-> FALSE, pids |-> {}, map |-> EmptyRegistry],
      [has_value |-> TRUE, pids |-> {3}, map |-> EmptyRegistry],
      [has_value |-> TRUE, pids |-> {3}, map |-> [p \in {2} |-> TmuxWid]],
      [has_value |-> TRUE, pids |-> {2, 3}, map |-> [p \in {1} |-> TmuxWid]],
      [has_value |-> TRUE, pids |-> {3}, map |-> [p \in {1} |-> TerminalWid]] }

\* for (const auto ppid: ppids): find ppid in the map; continue on a miss,
\* insert win->second on a hit.
RECURSIVE for_ppids(_, _, _)
for_ppids(ids, ppids, pid_window_map) ==
    IF ppids = {} THEN ids
    ELSE LET ppid == CHOOSE p \in ppids : TRUE IN
         for_ppids(IF ppid \in DOMAIN pid_window_map
                   THEN ids \cup {pid_window_map[ppid]}
                   ELSE ids,
                   ppids \ {ppid}, pid_window_map)

\* for (const auto pid: pids.value()): walk get_process_tree(pid).
RECURSIVE for_pids(_, _, _)
for_pids(ids, pids, pid_window_map) ==
    IF pids = {} THEN ids
    ELSE LET pid == CHOOSE p \in pids : TRUE IN
         for_pids(for_ppids(ids, get_process_tree(pid), pid_window_map),
                  pids \ {pid}, pid_window_map)

\* Variant of get_tmux_window_ids that looks up the client pids themselves
\* and does not walk their process trees.
get_tmux_window_ids_no_walk(ids, env) ==
    IF ~env.has_value THEN ids
    ELSE for_ppids(ids, env.pids, env.map)

\* The set passed by reference, after the call.
get_tmux_window_ids(ids, env) ==
    IF ~env.has_value THEN ids
    ELSE for_pids(ids, env.pids, env.map)

\* Every answer of the multiplexer and of the pid map over MaxPid processes
\* and three windows.
Pids == 1..MaxPid
PidWindowMaps ==
    UNION { [K -> {TerminalWid, TmuxWid, OtherTmuxWid}] : K \in SUBSET Pids }
AllTmuxEnvs ==
    { [has_value |-> FALSE, pids |-> {}, map |-> m] : m \in PidWindowMaps }
    \cup { [has_value |-> TRUE, pids |-> ps, map |-> m] :
              ps \in SUBSET Pids, m \in PidWindowMaps }

\* ---- initial state: a constructed canvas ------------------------------------
\* can_draw's initializer is in x11.hpp.
can_draw_initial == TRUE

MembersInit ==
    /\ parent_ids = {}
    /\ pendingParents = {}
    /\ curParent = 0
    /\ callerTodo = {}
    /\ callerGen = [w \in WinIds |-> 0]
    /\ newThread = NoThread
    /\ image = NoImage
    /\ nextImg = 1
    /\ is_animated = FALSE
    /\ releasedByClear = {}
    /\ windows = EmptyRegistry
    /\ nextWid = 1
    /\ can_draw = can_draw_initial
    /\ draw_thread = NoThread
    /\ animPc = [t \in ThreadIds |-> "unborn"]
    /\ animTodo = [t \in ThreadIds |-> {}]
    /\ animCur = [t \in ThreadIds |-> 0]
    /\ animImg = [t \in ThreadIds |-> NoImage]
    /\ animRaced = [t \in ThreadIds |-> FALSE]
    /\ animPasses = [t \in ThreadIds |-> 0]
    /\ evQueue = <<>>
    /\ evCur = [type |-> "none", window |-> 0]
    /\ evTarget = 0
    /\ evRaced = FALSE
    /\ evCount = 0
    /\ stop_flag = FALSE
    /\ process = "running"
    /\ dtorSawAnim = FALSE
    /\ errorLogs = 0

\* The constructor has returned: the display is open, the connection and
\* the visual were found, the event_handler thread is in handle_events.
Constructed ==
    /\ callerPc = "idle"
    /\ display = "open" /\ connOpen = TRUE
    /\ connection = "valid"
    /\ visual_res = 1
    /\ evPc = "wait"

CanvasInit == MembersInit /\ Constructed

Init ==
    /\ CanvasInit
    /\ tmuxEnv = [has_value |-> FALSE, pids |-> {}, map |-> EmptyRegistry]
    /\ tmuxIds = {}

\* ---- X11Canvas::init (caller thread) ------------------------------------------
\* image = std::move(new_image); parent_ids = {terminal}; get_tmux_window_ids.
\* The move-assignment destroys the Image held before.
init_move_image ==
    /\ Running /\ callerPc = "idle"
    /\ nextImg <= MaxInits
    /\ \E animated \in BOOLEAN, env \in TmuxEnvs :
         LET ids == get_tmux_window_ids({TerminalWid}, env) IN
         /\ nextWid + Cardinality(ids) - 1 <= MaxWid
         /\ image' = nextImg
         /\ nextImg' = nextImg + 1
         /\ is_animated' = animated
         /\ parent_ids' = ids
         /\ pendingParents' = ids
    /\ callerPc' = "init_for_each"
    /\ UNCHANGED <<curParent, callerTodo, callerGen, newThread, releasedByClear,
                   regVars, thrVars, animVars, evVars, envVars, ghostVars,
                   process>>

\* for_each body: xcb_generate_id, make_unique<X11Window>, entry of insert;
\* or the end of for_each and the return of init.
init_generate_id ==
    /\ Running /\ callerPc = "init_for_each"
    /\ IF pendingParents = {}
       THEN /\ callerPc' = "idle"
            /\ parent_ids' = {}
            /\ UNCHANGED <<pendingParents, curParent, nextWid>>
       ELSE \E parent \in pendingParents :
            /\ UNCHANGED parent_ids
            /\ curParent' = parent
            /\ pendingParents' = pendingParents \ {parent}
            /\ nextWid' = nextWid + 1
            /\ callerPc' = "init_inserting"
    /\ UNCHANGED <<callerTodo, callerGen, newThread, imgVars, windows,
                   thrVars, animVars, evVars, envVars, ghostVars, process>>

\* A reader that a completing registry write overlaps.
RacedAnim == [t \in ThreadIds |->
                animRaced[t] \/ animPc[t] \in {"iter", "render"}]
RacedEv == evRaced \/ evPc = "lookup"

\* Variant of init_insert that makes every Window a child of the terminal's
\* window.
init_insert_terminal_parent ==
    /\ Running /\ callerPc = "init_inserting"
    /\ LET window_id == nextWid - 1 IN
       windows' = [w \in Registered \cup {window_id} |->
                     IF w = window_id
                     THEN [parent |-> TerminalWid, img |-> image]
                     ELSE windows[w]]
    /\ animRaced' = RacedAnim
    /\ evRaced' = RacedEv
    /\ callerPc' = "init_for_each"
    /\ UNCHANGED <<parent_ids, pendingParents, curParent, callerTodo, callerGen, newThread,
                   imgVars, nextWid, thrVars, animPc, animTodo,
                   animCur, animImg, animPasses, evPc, evQueue, evCur, evTarget,
                   evCount, envVars, ghostVars, process>>

\* windows.insert({window_id, Window(parent, *image)}) completes.
init_insert ==
    /\ Running /\ callerPc = "init_inserting"
    /\ LET window_id == nextWid - 1 IN
       windows' = [w \in Registered \cup {window_id} |->
                     IF w = window_id
                     THEN [parent |-> curParent, img |-> image]
                     ELSE windows[w]]
    /\ animRaced' = RacedAnim
    /\ evRaced' = RacedEv
    /\ callerPc' = "init_for_each"
    /\ UNCHANGED <<parent_ids, pendingParents, curParent, callerTodo, callerGen, newThread,
                   imgVars, nextWid, thrVars, animPc, animTodo,
                   animCur, animImg, animPasses, evPc, evQueue, evCur, evTarget,
                   evCount, envVars, ghostVars, process>>

\* Thread ids no std::thread object holds.
FreeThreads == { t \in ThreadIds : animPc[t] = "unborn" }

\* ---- X11Canvas::draw (caller thread) ------------------------------------------
\* if (!image->is_animated()): with no Image held this is a virtual call
\* through a null pointer, and the process dies.
draw_is_animated ==
    /\ Running /\ callerPc = "idle"
    /\ \/ /\ image = NoImage
          /\ Crash
       \/ /\ image # NoImage
          /\ IF is_animated
             THEN /\ FreeThreads # {}
                  /\ callerPc' = "draw_spawn"
                  /\ UNCHANGED <<callerTodo, callerGen>>
             ELSE /\ callerPc' = "draw_static"
                  /\ callerTodo' = Registered
                  /\ callerGen' = [w \in WinIds |-> 0]
          /\ UNCHANGED <<parent_ids, pendingParents, curParent, newThread, imgVars, regVars,
                         thrVars, animVars, evVars, envVars, ghostVars, process>>

\* Static image: window->generate_frame() for the next window of the range-for.
draw_generate_frame ==
    /\ Running /\ callerPc = "draw_static"
    /\ \E w \in callerTodo :
         \/ /\ Dangling(w)
            /\ Crash
         \/ /\ callerGen' = [callerGen EXCEPT ![w] = @ + 1]
            /\ callerTodo' = callerTodo \ {w}
            /\ UNCHANGED <<callerPc, parent_ids, pendingParents, curParent, newThread, imgVars,
                           regVars, thrVars, animVars, evVars, envVars, ghostVars,
                           process>>

\* Variant of draw_return that leaves the range-for before its end.
draw_return_early ==
    /\ Running /\ callerPc = "draw_static"
    /\ callerPc' = "idle"
    /\ callerTodo' = {}
    /\ callerGen' = [w \in WinIds |-> 0]
    /\ UNCHANGED <<parent_ids, pendingParents, curParent, newThread, imgVars, regVars,
                   thrVars, animVars, evVars, envVars, ghostVars, process>>

\* Static image: the range-for is over; return.
draw_return ==
    /\ Running /\ callerPc = "draw_static"
    /\ callerTodo = {}
    /\ callerPc' = "idle"
    /\ callerGen' = [w \in WinIds |-> 0]
    /\ UNCHANGED <<parent_ids, pendingParents, curParent, callerTodo, newThread,
                   imgVars, regVars, thrVars, animVars, evVars, envVars, ghostVars,
                   process>>

\* Animated image: std::thread([&]{...}) is constructed; the new thread runs.
draw_spawn ==
    /\ Running /\ callerPc = "draw_spawn"
    /\ LET t == CHOOSE f \in FreeThreads : \A g \in FreeThreads : f <= g IN
       /\ newThread' = t
       /\ animPc' = [animPc EXCEPT ![t] = "check"]
       /\ animPasses' = [animPasses EXCEPT ![t] = 0]
    /\ callerPc' = "draw_assign"
    /\ UNCHANGED <<parent_ids, pendingParents, curParent, callerTodo, callerGen, imgVars,
                   regVars, can_draw, draw_thread, animTodo, animCur, animImg,
                   animRaced, evVars, envVars, ghostVars, process>>

\* draw_thread = std::move(temporary): std::terminate if draw_thread is joinable.
draw_assign ==
    /\ Running /\ callerPc = "draw_assign"
    /\ IF draw_thread # NoThread
       THEN /\ process' = "terminated"
            /\ UNCHANGED <<callerPc, newThread, draw_thread>>
       ELSE /\ draw_thread' = newThread
            /\ newThread' = NoThread
            /\ callerPc' = "idle"
            /\ UNCHANGED process
    /\ UNCHANGED <<parent_ids, pendingParents, curParent, callerTodo, callerGen, imgVars,
                   regVars, can_draw, animVars, evVars, envVars, ghostVars>>

\* Variant of join_draw_thread that does not wait for the thread (a detach).
join_draw_thread_detach ==
    IF draw_thread = NoThread
    THEN UNCHANGED <<draw_thread, animPc>>
    ELSE /\ draw_thread' = NoThread
         /\ UNCHANGED animPc

\* if (draw_thread.joinable()) draw_thread.join(): join returns once the
\* thread has left its lambda; the std::thread is then not joinable.
join_draw_thread ==
    IF draw_thread = NoThread
    THEN UNCHANGED <<draw_thread, animPc>>
    ELSE /\ animPc[draw_thread] = "done"
         /\ draw_thread' = NoThread
         /\ animPc' = [animPc EXCEPT ![draw_thread] = "unborn"]

\* ---- X11Canvas::clear (caller thread) -----------------------------------------
\* can_draw.store(false)
clear_store_false ==
    /\ Running /\ callerPc = "idle"
    /\ can_draw' = FALSE
    /\ callerPc' = "clear_join"
    /\ UNCHANGED <<parent_ids, pendingParents, curParent, callerTodo, callerGen, newThread,
                   imgVars, regVars, draw_thread, animVars, evVars,
                   envVars, ghostVars, process>>

\* Variant of clear_join that goes on to windows.clear() without the join.
clear_join_skipped ==
    /\ Running /\ callerPc = "clear_join"
    /\ callerPc' = "clear_clearing"
    /\ UNCHANGED <<parent_ids, pendingParents, curParent, callerTodo, callerGen, newThread,
                   imgVars, regVars, thrVars, animVars, evVars, envVars, ghostVars,
                   process>>

\* The join of clear; then windows.clear() is entered.
clear_join ==
    /\ Running /\ callerPc = "clear_join"
    /\ join_draw_thread
    /\ callerPc' = "clear_clearing"
    /\ UNCHANGED <<parent_ids, pendingParents, curParent, callerTodo, callerGen, newThread,
                   imgVars, regVars, can_draw, animTodo, animCur, animImg,
                   animRaced, animPasses, evVars, envVars, ghostVars, process>>

\* windows.clear() completes: every Window is destroyed.  Clearing an empty
\* map frees nothing a reader could be using.
clear_windows ==
    /\ Running /\ callerPc = "clear_clearing"
    /\ windows' = EmptyRegistry
    /\ animRaced' = IF Registered = {} THEN animRaced ELSE RacedAnim
    /\ evRaced' = IF Registered = {} THEN evRaced ELSE RacedEv
    /\ callerPc' = "clear_image"
    /\ UNCHANGED <<parent_ids, pendingParents, curParent, callerTodo, callerGen, newThread,
                   imgVars, nextWid, thrVars, animPc, animTodo, animCur, animImg,
                   animPasses, evPc, evQueue, evCur, evTarget, evCount, envVars,
                   ghostVars, process>>

\* image.reset()
clear_image_reset ==
    /\ Running /\ callerPc = "clear_image"
    /\ image' = NoImage
    /\ releasedByClear' = IF image = NoImage THEN releasedByClear
                          ELSE releasedByClear \cup {image}
    /\ callerPc' = "clear_rearm"
    /\ UNCHANGED <<parent_ids, pendingParents, curParent, callerTodo, callerGen, newThread,
                   nextImg, is_animated, regVars, thrVars, animVars, evVars,
                   envVars, ghostVars, process>>

\* Variant of clear_store_true that returns without re-arming the flag.
clear_store_true_missing ==
    /\ Running /\ callerPc = "clear_rearm"
    /\ callerPc' = "idle"
    /\ UNCHANGED <<parent_ids, pendingParents, curParent, callerTodo, callerGen, newThread,
                   imgVars, regVars, thrVars, animVars, evVars, envVars, ghostVars,
                   process>>

\* can_draw.store(true); return.
clear_store_true ==
    /\ Running /\ callerPc = "clear_rearm"
    /\ can_draw' = TRUE
    /\ callerPc' = "idle"
    /\ UNCHANGED <<parent_ids, pendingParents, curParent, callerTodo, callerGen, newThread,
                   imgVars, regVars, draw_thread, animVars, evVars,
                   envVars, ghostVars, process>>

\* ---- X11Canvas::~X11Canvas (caller thread) ------------------------------------
\* The destructor is entered.
dtor_begin ==
    /\ Running /\ callerPc = "idle"
    /\ callerPc' = "dtor_join_events"
    /\ dtorSawAnim' = (\E t \in ThreadIds : AnimAlive(t))
    /\ UNCHANGED <<parent_ids, pendingParents, curParent, callerTodo, callerGen, newThread,
                   imgVars, regVars, thrVars, animVars, evVars, envVars,
                   errorLogs, tmuxVars, ctorVars, process>>

\* if (event_handler.joinable()) event_handler.join()
dtor_join_event_handler ==
    /\ Running /\ callerPc = "dtor_join_events"
    /\ evPc = "done"
    /\ callerPc' = "dtor_join_draw"
    /\ UNCHANGED <<parent_ids, pendingParents, curParent, callerTodo, callerGen, newThread,
                   imgVars, regVars, thrVars, animVars, evVars, envVars, ghostVars,
                   process>>

\* Variant of dtor_join_draw_thread that closes the display without the join.
dtor_join_draw_thread_skipped ==
    /\ Running /\ callerPc = "dtor_join_draw"
    /\ callerPc' = "dtor_close"
    /\ UNCHANGED <<parent_ids, pendingParents, curParent, callerTodo, callerGen, newThread,
                   imgVars, regVars, thrVars, animVars, evVars, envVars, ghostVars,
                   process>>

\* The join of the destructor.
dtor_join_draw_thread ==
    /\ Running /\ callerPc = "dtor_join_draw"
    /\ join_draw_thread
    /\ callerPc' = "dtor_close"
    /\ UNCHANGED <<parent_ids, pendingParents, curParent, callerTodo, callerGen, newThread,
                   imgVars, regVars, can_draw, animTodo, animCur, animImg,
                   animRaced, animPasses, evVars, envVars, ghostVars, process>>

\* XCloseDisplay(display)
dtor_close_display ==
    /\ Running /\ callerPc = "dtor_close"
    /\ connOpen' = FALSE
    /\ callerPc' = "closed"
    /\ UNCHANGED <<parent_ids, pendingParents, curParent, callerTodo, callerGen, newThread,
                   imgVars, regVars, thrVars, animVars, evVars, stop_flag,
                   ghostVars, process>>

\* ---- AnimationDriver: the lambda draw() starts --------------------------------
\* while (can_draw.load()): enter the body and begin the range-for, or leave.
anim_can_draw_load(t) ==
    /\ Running /\ animPc[t] = "check"
    /\ IF can_draw
       THEN /\ animPc' = [animPc EXCEPT ![t] = "iter"]
            /\ animTodo' = [animTodo EXCEPT ![t] = Registered]
            /\ animRaced' = [animRaced EXCEPT ![t] = Mutating]
            /\ animPasses' = [animPasses EXCEPT ![t] = 1]
       ELSE /\ animPc' = [animPc EXCEPT ![t] = "done"]
            /\ UNCHANGED <<animTodo, animRaced, animPasses>>
    /\ UNCHANGED <<callerVars, imgVars, regVars, thrVars, animCur, animImg,
                   evVars, envVars, ghostVars, process>>

\* The range-for takes its next window, or ends and loads the image pointer
\* for next_frame.  An iteration a registry write overlapped dies or goes on
\* over any part of the registry.
anim_for_next(t) ==
    /\ Running /\ animPc[t] = "iter"
    /\ IF animRaced[t] \/ Mutating
       THEN \/ Crash
            \/ /\ \E rest \in SUBSET Registered :
                    animTodo' = [animTodo EXCEPT ![t] = rest]
               /\ animRaced' = [animRaced EXCEPT ![t] = Mutating]
               /\ UNCHANGED <<callerVars, imgVars, regVars, thrVars, animPc,
                              animCur, animImg, animPasses, evVars, envVars,
                              ghostVars, process>>
       ELSE /\ IF animTodo[t] = {}
               THEN /\ animPc' = [animPc EXCEPT ![t] = "next_frame"]
                    /\ animImg' = [animImg EXCEPT ![t] = image]
                    /\ UNCHANGED <<animTodo, animCur>>
               ELSE \E w \in animTodo[t] :
                    /\ animPc' = [animPc EXCEPT ![t] = "render"]
                    /\ animCur' = [animCur EXCEPT ![t] = w]
                    /\ animTodo' = [animTodo EXCEPT ![t] = @ \ {w}]
                    /\ UNCHANGED animImg
            /\ UNCHANGED <<callerVars, imgVars, regVars, thrVars, animRaced,
                           animPasses, evVars, envVars, ghostVars, process>>

\* window->generate_frame() on the window the range-for is at.
anim_generate_frame(t) ==
    /\ Running /\ animPc[t] = "render"
    /\ \/ /\ Dangling(animCur[t])
          /\ Crash
       \/ /\ animPc' = [animPc EXCEPT ![t] = "iter"]
          /\ animCur' = [animCur EXCEPT ![t] = 0]
          /\ UNCHANGED <<callerVars, imgVars, regVars, thrVars, animTodo, animImg,
                         animRaced, animPasses, evVars, envVars, ghostVars,
                         process>>

\* image->next_frame() through the pointer loaded; then the pointer is
\* loaded again for frame_delay.
anim_next_frame(t) ==
    /\ Running /\ animPc[t] = "next_frame"
    /\ \/ /\ animImg[t] = NoImage \/ animImg[t] \in released
          /\ Crash
       \/ /\ animPc' = [animPc EXCEPT ![t] = "sleep"]
          /\ animImg' = [animImg EXCEPT ![t] = image]
          /\ UNCHANGED <<callerVars, imgVars, regVars, thrVars, animTodo, animCur,
                         animRaced, animPasses, evVars, envVars, ghostVars,
                         process>>

\* sleep_for(milliseconds(image->frame_delay())), then back to the loop test.
anim_sleep(t) ==
    /\ Running /\ animPc[t] = "sleep"
    /\ \/ /\ animImg[t] = NoImage \/ animImg[t] \in released
          /\ Crash
       \/ /\ animPc' = [animPc EXCEPT ![t] = "check"]
          /\ animImg' = [animImg EXCEPT ![t] = NoImage]
          /\ UNCHANGED <<callerVars, imgVars, regVars, thrVars, animTodo, animCur,
                         animRaced, animPasses, evVars, envVars, ghostVars,
                         process>>

\* ---- EventDispatcher: X11Canvas::handle_events --------------------------------
Events == { [type |-> "error", window |-> 0], [type |-> "other", window |-> 0] }
          \cup { [type |-> "expose", window |-> w] : w \in WinIds \cup {UnknownWid} }
NoEvent == [type |-> "none", window |-> 0]

\* Variant of poll_for_event that tests the stop signal between two events.
poll_for_event_checks_stop ==
    IF stop_flag
    THEN /\ evPc' = "done"
         /\ UNCHANGED <<evQueue, evCur>>
    ELSE IF evQueue = <<>>
         THEN /\ evCur' = NoEvent
              /\ evPc' = "wait"
              /\ UNCHANGED evQueue
         ELSE /\ evCur' = Head(evQueue)
              /\ evQueue' = Tail(evQueue)
              /\ evPc' = "dispatch"

\* event.reset(xcb_poll_for_event(connection)) and the test of the inner
\* while: the next queued event, or back to the wait.
poll_for_event ==
    IF evQueue = <<>>
    THEN /\ evCur' = NoEvent
         /\ evPc' = "wait"
         /\ UNCHANGED evQueue
    ELSE /\ evCur' = Head(evQueue)
         /\ evQueue' = Tail(evQueue)
         /\ evPc' = "dispatch"

\* wait_for_data_on_fd returns; stop_flag_ is tested; without data the wait
\* is resumed, with data the first event is polled.
ev_wake ==
    /\ Running /\ evPc = "wait"
    /\ IF stop_flag
       THEN /\ evPc' = "done"
            /\ UNCHANGED <<evQueue, evCur>>
       ELSE poll_for_event
    /\ UNCHANGED <<callerVars, imgVars, regVars, thrVars, animVars, evTarget,
                   evRaced, evCount, envVars, ghostVars, process>>

\* Variant of ev_dispatch in which a protocol error ends the loop.
ev_dispatch_error_fatal ==
    /\ Running /\ evPc = "dispatch"
    /\ IF evCur.type = "expose"
       THEN /\ evPc' = "lookup"
            /\ evRaced' = Mutating
            /\ UNCHANGED <<evQueue, evCur>>
       ELSE /\ IF evCur.type = "error"
               THEN evPc' = "done" /\ UNCHANGED <<evQueue, evCur>>
               ELSE poll_for_event
            /\ UNCHANGED evRaced
    /\ errorLogs' = IF evCur.type = "error" THEN errorLogs + 1 ELSE errorLogs
    /\ UNCHANGED <<callerVars, imgVars, regVars, thrVars, animVars, evTarget,
                   evCount, envVars, dtorSawAnim, tmuxVars, ctorVars, process>>

\* switch (x11_event): case 0 is logged with logger->error, XCB_EXPOSE and
\* the default case with logger->debug; an Expose then enters
\* windows.at(expose->window), the other two poll the next event.
ev_dispatch ==
    /\ Running /\ evPc = "dispatch"
    /\ IF evCur.type = "expose"
       THEN /\ evPc' = "lookup"
            /\ evRaced' = Mutating
            /\ UNCHANGED <<evQueue, evCur>>
       ELSE /\ poll_for_event
            /\ UNCHANGED evRaced
    /\ errorLogs' = IF evCur.type = "error" THEN errorLogs + 1 ELSE errorLogs
    /\ UNCHANGED <<callerVars, imgVars, regVars, thrVars, animVars, evTarget,
                   evCount, envVars, dtorSawAnim, tmuxVars, ctorVars, process>>

\* windows.at() returns the Window or throws std::out_of_range.  A lookup
\* a registry write overlapped dies or goes on.
ev_lookup ==
    /\ Running /\ evPc = "lookup"
    /\ \/ /\ evRaced \/ Mutating
          /\ Crash
       \/ /\ IF evCur.window \in Registered
             THEN /\ evTarget' = evCur.window
                  /\ evPc' = "window_draw"
             ELSE /\ evPc' = "caught"
                  /\ UNCHANGED evTarget
          /\ evRaced' = FALSE
          /\ UNCHANGED <<callerVars, imgVars, regVars, thrVars, animVars, evQueue,
                         evCur, evCount, envVars, ghostVars, process>>

\* Variant of ev_catch_out_of_range whose handler logs at error level.
ev_catch_logs_error ==
    /\ Running /\ evPc = "caught"
    /\ poll_for_event
    /\ errorLogs' = errorLogs + 1
    /\ UNCHANGED <<callerVars, imgVars, regVars, thrVars, animVars, evTarget,
                   evRaced, evCount, envVars, dtorSawAnim, tmuxVars, ctorVars, process>>

\* catch (const std::out_of_range&) {}: the handler is empty; the next event
\* is polled.
ev_catch_out_of_range ==
    /\ Running /\ evPc = "caught"
    /\ poll_for_event
    /\ UNCHANGED <<callerVars, imgVars, regVars, thrVars, animVars, evTarget,
                   evRaced, evCount, envVars, ghostVars, process>>

\* ->draw() on the Window found.
ev_window_draw ==
    /\ Running /\ evPc = "window_draw"
    /\ \/ /\ evTarget \in destroyed
          /\ Crash
       \/ /\ poll_for_event
          /\ evTarget' = 0
          /\ UNCHANGED <<callerVars, imgVars, regVars, thrVars, animVars, evRaced,
                         evCount, envVars, ghostVars, process>>

\* ---- environment --------------------------------------------------------------
\* The X server queues an event on the connection.
deliver_event ==
    /\ Running /\ connOpen
    /\ evCount < MaxEvents
    /\ \E e \in Events : evQueue' = Append(evQueue, e)
    /\ evCount' = evCount + 1
    /\ UNCHANGED <<callerVars, imgVars, regVars, thrVars, animVars, evPc, evCur,
                   evTarget, evRaced, envVars, ghostVars, process>>

\* The application sets Application::stop_flag_.
set_stop_flag ==
    /\ Running /\ ~stop_flag
    /\ stop_flag' = TRUE
    /\ UNCHANGED <<callerVars, imgVars, regVars, thrVars, animVars, evVars,
                   connOpen, ghostVars, process>>

\* ---- specification ----------------------------------------------------------
Caller ==
    \/ init_move_image \/ init_generate_id \/ init_insert
    \/ draw_is_animated \/ draw_generate_frame \/ draw_return
    \/ draw_spawn \/ draw_assign
    \/ clear_store_false \/ clear_join \/ clear_windows
    \/ clear_image_reset \/ clear_store_true
    \/ dtor_begin \/ dtor_join_event_handler \/ dtor_join_draw_thread
    \/ dtor_close_display

Anim(t) ==
    \/ anim_can_draw_load(t) \/ anim_for_next(t) \/ anim_generate_frame(t)
    \/ anim_next_frame(t) \/ anim_sleep(t)

EventHandler ==
    \/ ev_wake \/ ev_dispatch \/ ev_lookup \/ ev_catch_out_of_range
    \/ ev_window_draw

Next ==
    \/ Caller
    \/ \E t \in ThreadIds : Anim(t)
    \/ EventHandler
    \/ deliver_event
    \/ set_stop_flag

Spec == Init /\ [][Next]_vars

\* ---- X11Canvas::X11Canvas alone, then the canvas ------------------------------
\* Nothing of the constructor has run: no display, no event_handler thread.
CtorInit ==
    /\ MembersInit
    /\ callerPc = "ctor_open_display"
    /\ display = "unset" /\ connOpen = FALSE
    /\ connection = "unset"
    /\ visual_res = -1
    /\ evPc = "unborn"
    /\ tmuxEnv = [has_value |-> FALSE, pids |-> {}, map |-> EmptyRegistry]
    /\ tmuxIds = {}

\* display(XOpenDisplay(nullptr)); if (display == nullptr) throw
ctor_open_display ==
    /\ Running /\ callerPc = "ctor_open_display"
    /\ \E opened \in BOOLEAN :
         /\ display' = IF opened THEN "open" ELSE "null"
         /\ connOpen' = opened
         /\ callerPc' = IF opened THEN "ctor_get_connection" ELSE "ctor_thrown"
    /\ UNCHANGED <<parent_ids, pendingParents, curParent, callerTodo, callerGen,
                   newThread, imgVars, regVars, thrVars, animVars, evVars,
                   stop_flag, dtorSawAnim, errorLogs, tmuxVars, connection,
                   visual_res, process>>

\* connection = XGetXCBConnection(display); if (connection == nullptr) throw
ctor_get_connection ==
    /\ Running /\ callerPc = "ctor_get_connection"
    /\ \E derived \in BOOLEAN :
         /\ connection' = IF derived THEN "valid" ELSE "null"
         /\ callerPc' = IF derived THEN "ctor_match_visual" ELSE "ctor_thrown"
    /\ UNCHANGED <<parent_ids, pendingParents, curParent, callerTodo, callerGen,
                   newThread, imgVars, regVars, thrVars, animVars, evVars,
                   envVars, dtorSawAnim, errorLogs, tmuxVars, display,
                   visual_res, process>>

\* Variant of ctor_match_visual that goes on whatever XMatchVisualInfo returned.
ctor_match_visual_unchecked ==
    /\ Running /\ callerPc = "ctor_match_visual"
    /\ \E res \in {0, 1} :
         /\ visual_res' = res
         /\ callerPc' = "ctor_start_thread"
    /\ UNCHANGED <<parent_ids, pendingParents, curParent, callerTodo, callerGen,
                   newThread, imgVars, regVars, thrVars, animVars, evVars,
                   envVars, dtorSawAnim, errorLogs, tmuxVars, display,
                   connection, process>>

\* visual_res = XMatchVisualInfo(display, default_screen, 32, TrueColor,
\* &vinfo); if (visual_res == 0) throw
ctor_match_visual ==
    /\ Running /\ callerPc = "ctor_match_visual"
    /\ \E res \in {0, 1} :
         /\ visual_res' = res
         /\ callerPc' = IF res = 0 THEN "ctor_thrown" ELSE "ctor_start_thread"
    /\ UNCHANGED <<parent_ids, pendingParents, curParent, callerTodo, callerGen,
                   newThread, imgVars, regVars, thrVars, animVars, evVars,
                   envVars, dtorSawAnim, errorLogs, tmuxVars, display,
                   connection, process>>

\* event_handler = std::thread([&] { handle_events(); }); the constructor
\* returns.
ctor_start_thread ==
    /\ Running /\ callerPc = "ctor_start_thread"
    /\ evPc' = "wait"
    /\ callerPc' = "idle"
    /\ UNCHANGED <<parent_ids, pendingParents, curParent, callerTodo, callerGen,
                   newThread, imgVars, regVars, thrVars, animVars, evQueue, evCur,
                   evTarget, evRaced, evCount, envVars, ghostVars, process>>

Constructor ==
    \/ ctor_open_display \/ ctor_get_connection \/ ctor_match_visual
    \/ ctor_start_thread

SpecCtor == CtorInit /\ [][Constructor \/ Next]_vars

\* ---- get_tmux_window_ids alone ------------------------------------------------
\* The canvas is constructed; the multiplexer and the pid map can answer
\* anything.
TmuxInit ==
    /\ CanvasInit
    /\ tmuxEnv \in AllTmuxEnvs
    /\ tmuxIds = {}

\* parent_ids {dimensions.terminal.x11_wid}; get_tmux_window_ids(parent_ids)
tmux_resolve ==
    /\ tmuxIds = {}
    /\ tmuxIds' = get_tmux_window_ids({TerminalWid}, tmuxEnv)
    /\ UNCHANGED <<callerVars, imgVars, regVars, thrVars, animVars, evVars,
                   envVars, dtorSawAnim, errorLogs, tmuxEnv, ctorVars, process>>

SpecTmux == TmuxInit /\ [][tmux_resolve]_vars

\* The EventDispatcher is a thread of its own that the scheduler keeps running.
FairSpec == Spec /\ WF_vars(EventHandler)

\* ---- properties -------------------------------------------------------------
\* The caller is inside clear(): can_draw.store(false) is done, the return is not.
ClearPcs == {"clear_join", "clear_clearing", "clear_image", "clear_rearm"}
\* The caller is inside the destructor.
DtorPcs == {"dtor_join_events", "dtor_join_draw", "dtor_close"}
AliveThreads == { t \in ThreadIds : AnimAlive(t) }

\* C1: at most one AnimationDriver thread is alive at any moment, and no
\* sequence of init/draw/clear calls makes the process abort through
\* std::terminate.
C1_AtMostOneAnimationThread ==
    /\ Cardinality(AliveThreads) <= 1
    /\ process # "terminated"

\* C2: the caller is never inside a registry mutation (windows.insert,
\* windows.clear) while the EventDispatcher is inside its lookup or an
\* AnimationDriver inside its iteration over the registry.
C2_RegistrySerialized ==
    ~(InMutation /\ (\/ evPc = "lookup"
                   \/ \E t \in ThreadIds : animPc[t] \in {"iter", "render"}))

\* C3: from the join inside clear() on, through its return and until the
\* next draw() constructs a thread, no AnimationDriver thread exists, so
\* none calls generate_frame or next_frame; a render in flight when clear()
\* was invoked has completed by then.
C3_NoRenderAfterClear ==
    /\ callerPc \in {"clear_clearing", "clear_image", "clear_rearm"}
          => draw_thread = NoThread
    /\ (draw_thread = NoThread /\ callerPc # "draw_assign")
          => \A t \in ThreadIds : animPc[t] = "unborn"

\* clear() is about to return after joining a thread that had rendered.
C3_Witness ==
    /\ callerPc = "clear_rearm"
    /\ \E t \in ThreadIds : animPc[t] = "unborn" /\ animPasses[t] = 1

\* C4: once the display is closed, the EventDispatcher has left its loop and
\* no AnimationDriver thread is alive: both joins precede XCloseDisplay.
C4_JoinBeforeClose ==
    ~connOpen => (evPc = "done" /\ AliveThreads = {})

\* The display was closed after an animation had run and events were handled.
C4_Witness ==
    /\ ~connOpen
    /\ evCount > 0
    /\ \E t \in ThreadIds : animPasses[t] = 1

\* C5: once the destructor has begun with no AnimationDriver thread alive
\* (clear() was called first), it goes on to completion: the process does
\* not die before the display is closed.  (The first half of the claim, that
\* the loop leaves only on can_draw = false and that a destructor begun with
\* a live animation thread never closes the display, is C5_LoopLeavesOnFlag.)
C5_DestructorCompletes ==
    (callerPc \in DtorPcs /\ ~dtorSawAnim
        /\ image = NoImage /\ Registered = {} /\ destroyed # {})
      => Running

\* C5, first half: an AnimationDriver leaves its loop only while the flag is
\* false, whatever stop_flag is, and a destructor that began with a live
\* animation thread never closes the display.
C5_LoopLeavesOnFlag ==
    /\ \A t \in ThreadIds : animPc[t] = "done" => ~can_draw
    /\ dtorSawAnim => connOpen

\* C6: when draw() of a static image returns, it has called generate_frame
\* exactly once on every registered Window, on the caller thread, and from
\* its entry to its return it constructs no thread.
C6_StaticDrawOnce ==
    [][callerPc = "draw_static" =>
         /\ callerPc' \in {"draw_static", "idle"}
         /\ newThread' = NoThread /\ draw_thread' = draw_thread
         /\ FreeThreads \subseteq FreeThreads'
         /\ callerPc' = "idle" =>
              \A w \in WinIds :
                 callerGen[w] = IF w \in Registered THEN 1 ELSE 0]_vars

\* draw() of a static image is about to return with two Windows rendered.
C6_Witness ==
    /\ callerPc = "draw_static" /\ callerTodo = {}
    /\ image # NoImage /\ ~is_animated
    /\ Cardinality(Registered) = 2
    /\ \A w \in Registered : callerGen[w] = 1

\* C7: for an animated image, after draw() and until clear() is invoked, the
\* animation thread keeps cycling: it is alive and the process is running.
C7_AnimationKeepsCycling ==
    (draw_thread # NoThread /\ image # NoImage /\ is_animated
        /\ callerPc \notin ClearPcs)
      => (Running /\ AnimAlive(draw_thread))

\* C8: a clear() entered with nothing to clear (no init yet, or right after
\* another clear()) runs to its return: the process does not die in it.
C8_ClearTwiceTerminates ==
    (callerPc \in {"clear_join", "clear_clearing"}
        /\ image = NoImage /\ Registered = {} /\ draw_thread = NoThread)
      => Running

\* C9: clear() clears the flag, joins, destroys the Windows, releases the
\* Image, in this order; a Window an AnimationDriver is rendering is not
\* destroyed and an Image it is advancing was not released by clear().
C9_ClearOrder ==
    /\ callerPc \in {"clear_join", "clear_clearing", "clear_image"} => ~can_draw
    /\ callerPc \in {"clear_clearing", "clear_image", "clear_rearm"}
          => AliveThreads = {}
    /\ callerPc \in {"clear_image", "clear_rearm"} => Registered = {}
    /\ callerPc = "clear_rearm" => image = NoImage
    /\ \A t \in ThreadIds :
         /\ animPc[t] = "render" => animCur[t] \notin destroyed
         /\ animPc[t] = "next_frame" => animImg[t] \notin releasedByClear

\* clear() has cleared the flag and waits in the join while the thread is
\* inside generate_frame of a registered Window.
C9_Witness ==
    /\ callerPc = "clear_join"
    /\ \E t \in ThreadIds : animPc[t] = "render" /\ animCur[t] \in Registered

\* C10 (as amended): the flag is true whenever no clear() is in progress, and
\* an AnimationDriver that leaves its loop without a single pass does so
\* only because a clear() has cleared the flag and is waiting to join it.
C10_FlagRearmed ==
    /\ callerPc \notin ClearPcs => can_draw
    /\ \A t \in ThreadIds :
         (animPc[t] = "done" /\ animPasses[t] = 0) => callerPc = "clear_join"

\* After a clear() destroyed the Windows of an earlier init(), the thread of
\* a new init() and draw() has begun a render pass.
C10_Witness ==
    /\ destroyed # {} /\ Registered # {}
    /\ image # NoImage /\ is_animated
    /\ draw_thread # NoThread
    /\ animPc[draw_thread] = "render" /\ animPasses[draw_thread] = 1

\* C10 (as claimed): after a clear(), the animation loop a following init()
\* and draw() starts never leaves without at least one render pass.
C10_AlwaysOnePass ==
    \A t \in ThreadIds :
       (destroyed # {} /\ image # NoImage /\ is_animated /\ animPc[t] = "done")
          => animPasses[t] = 1

\* ---- the EventDispatcher's loop ------------------------------------------------
\* The EventDispatcher is handling an event it polled.
DrainPcs == {"dispatch", "lookup", "caught", "window_draw"}

\* C11: the EventDispatcher leaves its loop only on a wake from the wait that
\* finds the stop signal set.  While it handles an event (a protocol error,
\* an Expose for a registered or an unregistered window, an unknown type)
\* it never leaves the loop, and the step that ends the handling of an event
\* takes the next queued event, or goes back to the wait when none is queued.
C11_LeavesOnlyOnStop ==
    [][/\ (evPc # "done" /\ evPc' = "done") => (evPc = "wait" /\ stop_flag)
       /\ (evPc = "wait" /\ ~stop_flag) => evPc' \in {"wait", "dispatch"}
       /\ (evPc \in DrainPcs /\ evPc' \notin {evPc, "lookup", "caught",
                                               "window_draw"}) =>
             IF evQueue = <<>>
             THEN evPc' = "wait"
             ELSE evPc' = "dispatch" /\ evCur' = Head(evQueue)]_vars

\* With the stop signal unset, the dispatcher is back in its wait after it
\* has handled every event delivered, a protocol error among them.
C11_Witness ==
    /\ ~stop_flag /\ evPc = "wait"
    /\ evCount = MaxEvents /\ evQueue = <<>>
    /\ errorLogs > 0

\* C12: once the stop signal is set, the EventDispatcher goes on to leave its
\* loop: it is not killed on the way.  Here the caller is inside
\* windows.insert, no AnimationDriver exists and the dispatcher is inside
\* windows.at, so the dispatcher is the only thread whose step can kill.
C12_StopLeadsToExit ==
    (/\ stop_flag /\ evPc = "lookup"
     /\ callerPc = "init_inserting"
     /\ \A t \in ThreadIds : animPc[t] = "unborn")
      => Running

\* C12, the wake: a wake that finds the stop signal set leaves the loop and
\* dispatches nothing, whatever is queued.
C12_ExitOnWake ==
    [][(evPc = "wait" /\ stop_flag /\ evPc' # "wait") =>
          /\ evPc' = "done"
          /\ evCur' = evCur
          /\ Len(evQueue') >= Len(evQueue)]_vars

\* C12, the progress: under fair scheduling of the dispatcher, once the stop
\* signal is set the dispatcher leaves its loop or the process has died.
C12_ExitsUnlessKilled == stop_flag ~> (evPc = "done" \/ ~Running)

\* C13: for an Expose event the dispatcher calls draw() on the Window that
\* windows.at() found under the event's window id and on nothing else; when
\* no Window is registered under the id, it calls no draw(), logs nothing at
\* error level, leaves the registry and the process as they are, and goes on
\* with the next queued event (or the wait).  No step it takes for an Expose
\* logs at error level or changes the registry.
C13_ExposeDrawsRegistered ==
    [][/\ (evPc = "lookup" /\ evPc' # "lookup") =>
             IF evCur.window \in Registered
             THEN evPc' = "window_draw" /\ evTarget' = evCur.window
             ELSE evPc' = "caught" /\ evTarget' = evTarget
       /\ (evPc' = "window_draw") =>
             (evCur'.type = "expose" /\ evTarget' = evCur'.window)
       /\ (evPc = "caught" /\ evPc' # "caught") =>
             /\ process' = process
             /\ IF evQueue = <<>>
                THEN evPc' = "wait"
                ELSE evPc' = "dispatch" /\ evCur' = Head(evQueue)
       /\ (evCur.type = "expose" /\ evPc \in DrainPcs /\ evPc' # evPc) =>
             /\ errorLogs' = errorLogs
             /\ windows' = windows]_vars

\* std::out_of_range was thrown for an Expose whose window id is not
\* registered, while another Window is.
C13_Witness ==
    /\ evPc = "caught" /\ evCur.type = "expose"
    /\ evCur.window \notin Registered /\ Registered # {}
    /\ Running

\* ---- the target window ids -----------------------------------------------------
\* The pids in the ancestor chain of a multiplexer client that the pid map
\* has a window for.
MatchedAncestors(env) ==
    { a \in DOMAIN env.map : \E c \in env.pids : a \in get_process_tree(c) }

\* C14: the target window id set is the terminal's id together with map[a]
\* for every ancestor a of a multiplexer client that is a key of the pid
\* map; it contains the terminal's id, is the singleton of it when no
\* multiplexer is present, and holds each matched window once.
C14_TargetIds ==
    tmuxIds # {} =>
      /\ tmuxIds = {TerminalWid}
                     \cup { tmuxEnv.map[a] : a \in MatchedAncestors(tmuxEnv) }
      /\ TerminalWid \in tmuxIds
      /\ ~tmuxEnv.has_value => tmuxIds = {TerminalWid}
      /\ Cardinality(tmuxIds) <= 1 + Cardinality(MatchedAncestors(tmuxEnv))

\* Two clients whose three ancestors map to two windows besides the
\* terminal's: the result has three ids, a window matched twice is in it once.
C14_Witness ==
    /\ Cardinality(tmuxIds) = 3
    /\ Cardinality(tmuxEnv.pids) = 2
    /\ Cardinality(MatchedAncestors(tmuxEnv)) = 3
    /\ TerminalWid \notin { tmuxEnv.map[a] : a \in MatchedAncestors(tmuxEnv) }

\* ---- init ------------------------------------------------------------------------
\* for_each is over and init() is about to return.
InitReturns == callerPc = "init_for_each" /\ pendingParents = {}

\* The registry was empty when the init() in progress began: every Window in
\* it was made by this init(), from the Image this init() received.
InitOnEmpty == \A w \in Registered : windows[w].img = image

\* C15: when an init() that began on an empty registry returns, the registry
\* has as many Windows as there are target ids, its keys are the ids
\* xcb_generate_id handed out during this init(), no two Windows have the
\* same parent, and the parents are exactly the target ids.
C15_OneWindowPerTarget ==
    (InitReturns /\ InitOnEmpty) =>
      /\ Cardinality(Registered) = Cardinality(parent_ids)
      /\ Registered = (nextWid - Cardinality(parent_ids))..(nextWid - 1)
      /\ Registered \cap destroyed = {}
      /\ \A v, w \in Registered :
            windows[v].parent = windows[w].parent => v = w
      /\ { windows[w].parent : w \in Registered } = parent_ids

\* An init() with two target ids is about to return.
C15_Witness ==
    /\ InitReturns /\ InitOnEmpty
    /\ parent_ids = {TerminalWid, TmuxWid}
    /\ Cardinality(Registered) = 2

\* ---- construction ----------------------------------------------------------------
\* One of the constructor's three checks has failed.
CheckFailed == display = "null" \/ connection = "null" \/ visual_res = 0

\* C16: when the display cannot be opened, the connection cannot be derived
\* or no visual matches, the constructor throws and the event_handler thread
\* is never started; the thread exists only once XOpenDisplay,
\* XGetXCBConnection and XMatchVisualInfo have all succeeded.
C16_FailFast ==
    /\ CheckFailed <=> callerPc = "ctor_thrown"
    /\ callerPc = "ctor_thrown" => evPc = "unborn"
    /\ evPc # "unborn" =>
          (display = "open" /\ connection = "valid" /\ visual_res = 1)

\* The constructor has thrown at its third check, after the first two
\* succeeded.
C16_Witness ==
    /\ callerPc = "ctor_thrown"
    /\ display = "open" /\ connection = "valid" /\ visual_res = 0
    /\ evPc = "unborn"

\* C18: a wake with data ready and the stop signal unset takes the head of
\* the queue; events leave the queue only from its head, one at a time, each
\* to be dispatched; the dispatcher returns to the wait only when a poll
\* finds the queue empty; and between the events of a drain it does not
\* leave the loop, whatever the stop signal is.
C18_DrainInOrder ==
    [][/\ (evPc = "wait" /\ ~stop_flag /\ evQueue # <<>> /\ evPc' # "wait") =>
             (evPc' = "dispatch" /\ evCur' = Head(evQueue))
       /\ (evQueue' # evQueue) =>
             \/ \E e \in Events : evQueue' = Append(evQueue, e)
             \/ /\ evQueue # <<>>
                /\ evQueue' = Tail(evQueue)
                /\ evCur' = Head(evQueue)
                /\ evPc' = "dispatch"
       /\ (evPc \in DrainPcs /\ evPc' = "wait") =>
             (evQueue = <<>> /\ evCur' = NoEvent)
       /\ (evPc \in DrainPcs) => evPc' # "done"]_vars

\* The stop signal is set while the dispatcher is inside draw() for one
\* event and another event is queued.
C18_Witness ==
    /\ stop_flag /\ Running
    /\ evPc = "window_draw"
    /\ evQueue # <<>>

\* ---- the Image -------------------------------------------------------------------
\* C17: next_frame has one writer and a static image is never advanced:
\* every next_frame call on the Image the canvas holds is made on an
\* animated image.
C17_StaticNeverAdvanced ==
    [][\A t \in ThreadIds :
         (/\ animPc[t] = "next_frame" /\ animPc'[t] = "sleep"
          /\ animImg[t] = image /\ image # NoImage)
           => is_animated]_vars

\* C19: every Window in the registry refers to the Image the canvas holds,
\* whenever no init() is in progress.
C19_WindowsReferToHeldImage ==
    (callerPc \notin {"init_for_each", "init_inserting"}) =>
       \A w \in Registered : windows[w].img = image /\ windows[w].img \notin released

\* C20: a draw() entered while the canvas holds no Image does not kill the
\* process.  Here no AnimationDriver exists and the EventDispatcher is not
\* inside a lookup or a Window's draw(), so the step of draw() is the only
\* one that can kill.
C20_DrawWithoutImage ==
    (/\ callerPc = "idle" /\ image = NoImage
     /\ \A t \in ThreadIds : animPc[t] = "unborn"
     /\ evPc \in {"wait", "dispatch", "done"})
      => Running

====
